---- MODULE Spec2Model ----
(***************************************************************************)
(* Quick Open (src/search/QuickOpen.js): the module-level search session   *)
(* (currentPlugin, fileList, fileListPromise, _curDialog), the             *)
(* QuickNavigateDialog objects and their handlers, the promise callbacks   *)
(* they register, and the currentFileChange handler.                       *)
(*                                                                         *)
(* Strings are sequences of one-character strings.  The editor, the modal  *)
(* bar, the search field, the project's file index and the plugins are the *)
(* handlers' environment: their calls into the module are the actions.     *)
(*                                                                         *)
(* Not modelled: what the handlers only draw (the dialog label, the        *)
(* indexing spinner, the result formatters, highlightMatch) and the scroll *)
(* fix-up of modalBar.prepareClose().  ProjectManager.getAllFiles always   *)
(* returns a pending promise; the file list a load delivers is named by    *)
(* the dialog that started the load.  StringMatch's results are named by   *)
(* the file list and the query they were computed from.                    *)
(***************************************************************************)
EXTENDS Integers, Sequences, FiniteSets, TLC

\* ------------------------------------------------------------------ bounds

\* Longest query typed into the search field (SpecGoto).
MaxQueryLen == 4
\* QuickNavigateDialog objects created in one behaviour.
MaxDialogs == 3
\* createDialog callbacks waiting on close promises at one time.
MaxPending == 2
\* File searches waiting on one file-list load.
MaxDeferred == 1
\* getDocumentForPath promises in flight at one time (SpecFileChange).
MaxLoads == 2
\* Plugins registered in one behaviour (SpecRegister).
MaxPlugins == 2
\* String ranges of one search result (SpecHighlight).
MaxRanges == 3

\* ----------------------------------------------------------------- strings

Digits == {"0", "1", "2"}
Alphabet == Digits \cup {":", ",", "a", "@"}

\* A null / undefined string argument.
Null == <<"null">>

RECURSIVE StringsUpTo(_)
StringsUpTo(n) ==
    IF n = 0 THEN {<<>>}
    ELSE LET shorter == StringsUpTo(n - 1)
         IN  shorter \cup {Append(s, c) : s \in {t \in shorter : Len(t) = n - 1}, c \in Alphabet}

\* JavaScript's  s || ""
OrEmpty(s) == IF s = Null THEN <<>> ELSE s

Substr(s, from, to) == IF from > to THEN <<>> ELSE SubSeq(s, from, to)

\* Index of the first ":" of s, 0 when there is none.
RECURSIVE FirstColonFrom(_, _)
FirstColonFrom(s, i) ==
    IF i > Len(s) THEN 0
    ELSE IF s[i] = ":" THEN i
    ELSE FirstColonFrom(s, i + 1)

\* Last index of the run of characters other than "," and ":" that starts at i
\* (i - 1 when the run is empty): the greedy [^,:]+ of CURSOR_POS_EXP.
RECURSIVE RunEnd(_, _)
RunEnd(s, i) ==
    IF i > Len(s) \/ s[i] \in {",", ":"} THEN i - 1
    ELSE RunEnd(s, i + 1)

\* query.match(CURSOR_POS_EXP): the match at the first ":" (every part after the
\* colon is optional, so the leftmost colon always matches).  A group that did
\* not take part is Null (undefined in the code); found is FALSE for a null match.
RegexMatch(query) ==
    LET c  == FirstColonFrom(query, 1)
        e1 == RunEnd(query, c + 1)
        g1 == IF e1 >= c + 1 THEN SubSeq(query, c + 1, e1) ELSE Null
        hasSep == e1 + 1 <= Len(query)
        g3 == IF hasSep /\ e1 + 2 <= Len(query)
              THEN SubSeq(query, e1 + 2, Len(query)) ELSE Null
    IN  IF c = 0 THEN [found |-> FALSE]
        ELSE [found |-> TRUE,
              m0 |-> SubSeq(query, c, IF hasSep THEN Len(query) ELSE e1),
              m1 |-> g1, m3 |-> g3]

IsDigits(s) == \A i \in 1..Len(s) : s[i] \in Digits

DigitVal(c) == CASE c = "0" -> 0 [] c = "1" -> 1 [] c = "2" -> 2

RECURSIVE ToNumber(_)
ToNumber(s) ==
    IF Len(s) = 0 THEN 0
    ELSE 10 * ToNumber(SubSeq(s, 1, Len(s) - 1)) + DigitVal(s[Len(s)])

\* group && isNaN(group): over Alphabet a non-empty string is a number exactly
\* when it is all digits.
TruthyNaN(g) == g # Null /\ ~IsDigits(g)

\* group - 1 || 0 : undefined - 1 is NaN, NaN and 0 are falsy.
MinusOneOrZero(g) == IF g = Null THEN 0 ELSE ToNumber(g) - 1

NoCursorPos == [isNull |-> TRUE]

extractCursorPosWrongColumn(query) ==
    LET regInfo == RegexMatch(query)
    IN  IF Len(query) <= 1 \/ ~regInfo.found THEN NoCursorPos
        ELSE IF TruthyNaN(regInfo.m1) \/ TruthyNaN(regInfo.m3) THEN NoCursorPos
        ELSE [isNull |-> FALSE,
              query  |-> regInfo.m0,
              local  |-> query[1] = ":",
              line   |-> MinusOneOrZero(regInfo.m1),
              ch     |-> IF regInfo.m3 = Null THEN 0 ELSE ToNumber(regInfo.m3)]

extractCursorPos(query) ==
    LET regInfo == RegexMatch(query)
    IN  IF Len(query) <= 1 \/ ~regInfo.found THEN NoCursorPos
        ELSE IF TruthyNaN(regInfo.m1) \/ TruthyNaN(regInfo.m3) THEN NoCursorPos
        ELSE [isNull |-> FALSE,
              query  |-> regInfo.m0,
              local  |-> query[1] = ":",
              line   |-> MinusOneOrZero(regInfo.m1),
              ch     |-> MinusOneOrZero(regInfo.m3)]

\* ------------------------------------------------------------- environment

\* The documents the editor can show, each with a full editor of its own.
Docs == {"a.js", "b.css"}
NoDoc == "none"

\* The files of the project: the two documents, a plain text file and an image.
Files == Docs \cup {"c.txt", "d.png"}
NoFile == "none"

\* LanguageManager.getLanguageForPath(path).getId() by the file's extension; the
\* language of a text file can be changed later.
DefaultLanguage(path) ==
    CASE path = "a.js" -> "javascript"
      [] path = "b.css" -> "css"
      [] path = "c.txt" -> "text"
      [] OTHER -> "image"
TextLanguages == {"javascript", "css", "text"}
\* language.isBinary()
IsBinary(languageId) == languageId = "image"

\* editor.getFirstVisibleLine() / getLastVisibleLine() of a document's full editor.
FirstVisibleLine(doc) == 0
LastVisibleLine(doc) == IF doc = "a.js" THEN 1 ELSE 11

\* A selection as the editor was given it: setSelection(from, to) with to = {line}
\* has no end column.
Pos(line, ch) == [line |-> line, ch |-> ch]
LineOnly(line) == [line |-> line]
Sel(from, to) == [start |-> from, end |-> to]
CursorAt(line, ch) == Sel(Pos(line, ch), Pos(line, ch))
NoSelections == [none |-> TRUE]
NoScrollPos == -1

InitialEditor == [selections |-> CursorAt(0, 0), scrollPos |-> 0]
\* What a plugin's itemFocus / itemSelect leaves in the editor when it reveals an item.
RevealedEditor == [selections |-> CursorAt(1, 1), scrollPos |-> 1]

\* ------------------------------------------------------------------ plugins

NoPlugin == "none"

\* The plugin definitions extensions hand to addQuickOpenPlugin; match(query) of
\* each tests the query's first character.
PluginDefs ==
    << [name |-> "anySymbols", languageIds |-> {}, hasPriority |-> FALSE, priority |-> 0,
        hasDone |-> TRUE, hasItemFocus |-> FALSE, trigger |-> "#"],
       [name |-> "jsOutline", languageIds |-> {"javascript"}, hasPriority |-> FALSE, priority |-> 0,
        hasDone |-> FALSE, hasItemFocus |-> FALSE, trigger |-> "@"],
       [name |-> "jsSymbols", languageIds |-> {"javascript"}, hasPriority |-> TRUE, priority |-> 1,
        hasDone |-> TRUE, hasItemFocus |-> TRUE, trigger |-> "@"],
       [name |-> "cssSelectors", languageIds |-> {"css"}, hasPriority |-> FALSE, priority |-> 0,
        hasDone |-> TRUE, hasItemFocus |-> TRUE, trigger |-> "@"] >>

PluginNames == {PluginDefs[i].name : i \in 1..Len(PluginDefs)}
PluginDef(name) == CHOOSE p \in {PluginDefs[i] : i \in 1..Len(PluginDefs)} : p.name = name

\* plugin.match(query)
PluginMatch(name, query) == Len(query) > 0 /\ query[1] = PluginDef(name).trigger

\* _providerRegistrationHandler.registerProvider(provider, languageIds, priority)
registerProvider(registry, provider, languageIds, priority) ==
    Append(registry, [provider |-> provider, languageIds |-> languageIds, priority |-> priority])

\* Stable insertion by descending priority.
RECURSIVE InsertByPriority(_, _)
InsertByPriority(sorted, r) ==
    IF sorted = <<>> THEN <<r>>
    ELSE IF Head(sorted).priority >= r.priority
         THEN <<Head(sorted)>> \o InsertByPriority(Tail(sorted), r)
         ELSE <<r>> \o sorted

RECURSIVE SortByPriority(_)
SortByPriority(s) ==
    IF s = <<>> THEN <<>>
    ELSE InsertByPriority(SortByPriority(SubSeq(s, 1, Len(s) - 1)), s[Len(s)])

\* _providerRegistrationHandler.getProvidersForLanguageId(languageId): the providers
\* registered for the language or for "all", highest priority first; without a
\* language, those registered for "all".
getProvidersForLanguageId(registry, languageId) ==
    SortByPriority(SelectSeq(registry,
        LAMBDA r : languageId \in r.languageIds \/ "all" \in r.languageIds))

addQuickOpenPluginNoAll(registry, pluginDef) ==
    LET providerPriority == IF pluginDef.hasPriority THEN pluginDef.priority ELSE 0
    IN  registerProvider(registry, pluginDef.name, pluginDef.languageIds, providerPriority)

addQuickOpenPlugin(registry, pluginDef) ==
    LET providerLanguageIds == IF pluginDef.languageIds # {} THEN pluginDef.languageIds ELSE {"all"}
        providerPriority == IF pluginDef.hasPriority THEN pluginDef.priority ELSE 0
    IN  registerProvider(registry, pluginDef.name, providerLanguageIds, providerPriority)

RECURSIVE RegisterAll(_, _)
RegisterAll(registry, defs) ==
    IF defs = <<>> THEN registry
    ELSE RegisterAll(addQuickOpenPlugin(registry, Head(defs)), Tail(defs))

\* -------------------------------------------------------------------- state

VARIABLES
    providers,          \* _providerRegistrationHandler's registrations, in order
    currentPlugin,      \* module variable currentPlugin (NoPlugin = null)
    fileList,           \* module variable fileList: 0 = unset, d = the list load d delivered
    fileListPromise,    \* module variable fileListPromise: 0 = null, d = load d's promise
    curDialog,          \* module variable _curDialog: 0 = undefined
    dialogs,            \* the QuickNavigateDialog objects, by order of creation
    loads,              \* the promises of ProjectManager.getAllFiles, one per showDialog
    curDoc,             \* DocumentManager.getCurrentDocument() (NoDoc = null)
    languages,          \* the language id of each file
    editors,            \* selections and scroll position of each document's full editor
    paneFocused,        \* the active pane has the focus (MainViewManager.focusActivePane)
    currentPluginSetIn, \* history: the dialog whose _filterCallback last assigned currentPlugin
    lastFilter,         \* history: the last _filterCallback call and what it returned
    lastSelect,         \* history: the last _handleItemSelect call and whether it threw
    formatted,          \* history: the last highlightMatch call and the HTML it returned
    asyncResults,       \* history: the file lists behind the results the last load resolved deferred searches with
    commandEnabled,     \* enabled state of the two Go to Definition commands
    consoleErrors,      \* what console.error was called with, in order
    docLoads,           \* the getDocumentForPath promises the currentFileChange handler waits on
    listeners,          \* documents carrying a languageChanged.quickFindDefinition listener
    failures            \* history: the document loads that failed, in order

sessionVars == <<providers, currentPlugin, fileList, fileListPromise, curDialog, dialogs, loads,
                 curDoc, languages, editors, paneFocused, currentPluginSetIn, lastFilter, lastSelect,
                 formatted, asyncResults>>
fileChangeVars == <<commandEnabled, consoleErrors, docLoads, listeners, failures>>
vars == <<sessionVars, fileChangeVars>>

DialogIds == 1..MaxDialogs

NoCmd == [pending |-> FALSE]

\* The fields of a QuickNavigateDialog that was not constructed yet.
NoDialog ==
    [created |-> FALSE, isOpen |-> FALSE, closePromise |-> "unset",
     origDocPath |-> NoDoc, origSelections |-> NoSelections, origScrollPos |-> NoScrollPos,
     matchers |-> {}, text |-> <<>>, selRange |-> <<0, 0>>, barCloses |-> 0, closeEvents |-> 0,
     openCmd |-> NoCmd, onClosed |-> <<>>,
     dispatched |-> {}, doneCalled |-> {}]

\* new QuickNavigateDialog()
QuickNavigateDialog == [NoDialog EXCEPT !.created = TRUE]

NoLoad == [state |-> "none", waiting |-> <<>>]

NoFilter == [dialog |-> 0, query |-> <<>>, ret |-> "none", consulted |-> {},
             searched |-> NoPlugin, results |-> [files |-> 0, query |-> <<>>]]

NoSelect == [dialog |-> 0, kind |-> "none", threw |-> FALSE]

\* The session state as one record, so that a handler is a function of it.
Cur ==
    [providers |-> providers, currentPlugin |-> currentPlugin, fileList |-> fileList,
     fileListPromise |-> fileListPromise, curDialog |-> curDialog, dialogs |-> dialogs,
     loads |-> loads, curDoc |-> curDoc, languages |-> languages, editors |-> editors,
     paneFocused |-> paneFocused,
     currentPluginSetIn |-> currentPluginSetIn, lastFilter |-> lastFilter,
     lastSelect |-> lastSelect, formatted |-> formatted, asyncResults |-> asyncResults]

\* A dialog whose close promise resolved is never shown again (createDialog makes a
\* new object), so no code reads its search text, matchers or original position
\* again: the state keeps of it what close(), beginSearch and the open command's
\* callbacks still read.
Settled(dlg) ==
    IF dlg.closePromise = "resolved"
    THEN [NoDialog EXCEPT !.created = TRUE, !.closePromise = "resolved",
                          !.onClosed = dlg.onClosed, !.openCmd = dlg.openCmd,
                          !.barCloses = dlg.barCloses, !.closeEvents = dlg.closeEvents]
    ELSE dlg

Becomes(S) ==
    /\ providers' = S.providers
    /\ currentPlugin' = S.currentPlugin
    /\ fileList' = S.fileList
    /\ fileListPromise' = S.fileListPromise
    /\ curDialog' = S.curDialog
    /\ dialogs' = [d \in DOMAIN S.dialogs |-> Settled(S.dialogs[d])]
    /\ loads' = S.loads
    /\ curDoc' = S.curDoc
    /\ languages' = S.languages
    /\ editors' = S.editors
    /\ paneFocused' = S.paneFocused
    /\ currentPluginSetIn' = S.currentPluginSetIn
    /\ lastFilter' = S.lastFilter
    /\ lastSelect' = S.lastSelect
    /\ formatted' = S.formatted
    /\ asyncResults' = S.asyncResults

NumDialogs(S) == Cardinality({d \in DialogIds : S.dialogs[d].created})

RECURSIVE SumLen(_, _)
SumLen(ds, n) == IF n = 0 THEN 0 ELSE Len(ds[n].onClosed) + SumLen(ds, n - 1)
NumPending(S) == SumLen(S.dialogs, MaxDialogs)

\* _getPluginsForCurrentContext()
getPluginsForCurrentContext(S) ==
    IF S.curDoc # NoDoc
    THEN getProvidersForLanguageId(S.providers, S.languages[S.curDoc])
    ELSE getProvidersForLanguageId(S.providers, "undefined")

\* ----------------------------------------------------------------- handlers

\* QuickNavigateDialog.prototype.setSearchFieldValue
setSearchFieldValue(S, d, prefix, initialString) ==
    LET pre  == OrEmpty(prefix)
        full == pre \o OrEmpty(initialString)
    IN  [S EXCEPT !.dialogs[d].text = full,
                  !.dialogs[d].selRange = <<Len(pre), Len(full)>>]

\* The .done handler showDialog hangs on the getAllFiles promise; "this" is dialog d.
fileListLoaded(S, d) ==
    [S EXCEPT !.fileList = d, !.fileListPromise = 0]

\* QuickNavigateDialog.prototype.showDialog.  ProjectManager.getAllFiles builds the
\* list asynchronously: the promise it returns is pending.
showDialog(S, d, prefix, initialString) ==
    IF S.dialogs[d].isOpen THEN S
    ELSE
    LET hasDoc == S.curDoc # NoDoc
        S1 == [S EXCEPT
                 !.dialogs[d].isOpen = TRUE,
                 !.dialogs[d].origDocPath = S.curDoc,
                 !.dialogs[d].origSelections =
                     IF hasDoc THEN S.editors[S.curDoc].selections ELSE NoSelections,
                 !.dialogs[d].origScrollPos =
                     IF hasDoc THEN S.editors[S.curDoc].scrollPos ELSE NoScrollPos]
        S2 == [S1 EXCEPT !.loads[d] = [state |-> "pending", waiting |-> <<>>],
                         !.fileListPromise = d]
        S3 == [S2 EXCEPT !.paneFocused = FALSE]
    IN  setSearchFieldValue(S3, d, prefix, initialString)

\* QuickNavigateDialog.prototype._handleCloseBar: the modal bar's "close" event.
\* plugin.done() is recorded in the dialog's doneCalled, the assignment of closePromise
\* is counted in closeEvents.
handleCloseBar(S, d, reason) ==
    LET plugins == getPluginsForCurrentContext(S)
        withDone == {plugins[i].provider : i \in
                        {j \in 1..Len(plugins) : PluginDef(plugins[j].provider).hasDone}}
        S1 == [S EXCEPT !.dialogs[d].closePromise = "pending",
                        !.dialogs[d].closeEvents = @ + 1,
                        !.dialogs[d].isOpen = FALSE,
                        !.dialogs[d].doneCalled = @ \cup withDone]
        editor == S.curDoc # NoDoc
        S2 == IF reason = "escape" /\ editor /\ S.dialogs[d].origSelections # NoSelections
              THEN [S1 EXCEPT !.editors[S.curDoc].selections = S.dialogs[d].origSelections]
              ELSE S1
        S3 == IF reason = "escape" /\ editor /\ S.dialogs[d].origScrollPos # NoScrollPos
              THEN [S2 EXCEPT !.editors[S.curDoc].scrollPos = S.dialogs[d].origScrollPos]
              ELSE S2
    IN  S3

\* QuickNavigateDialog.prototype.close: modalBar.close() fires the "close" event.
closeAlwaysClosesBar(S, d) ==
    handleCloseBar([S EXCEPT !.dialogs[d].barCloses = @ + 1], d, "api")

close(S, d) ==
    IF ~S.dialogs[d].isOpen THEN S
    ELSE handleCloseBar([S EXCEPT !.dialogs[d].barCloses = @ + 1], d, "api")

\* new QuickNavigateDialog(): the constructor's own _matchers and _filenameMatcher.
newDialogSharedMatchers(S) ==
    IF S.curDialog = 0 THEN QuickNavigateDialog
    ELSE [QuickNavigateDialog EXCEPT !.matchers = S.dialogs[S.curDialog].matchers]

newDialog(S) == QuickNavigateDialog

\* createDialog of beginSearch
createDialog(S, prefix, initialString) ==
    LET d  == NumDialogs(S) + 1
        S1 == [S EXCEPT !.dialogs[d] = newDialog(S), !.curDialog = d]
    IN  showDialog(S1, d, prefix, initialString)

beginSearchNeverWaits(S, prefix, initialString) ==
    IF S.curDialog # 0 /\ S.dialogs[S.curDialog].isOpen
    THEN setSearchFieldValue(S, S.curDialog, prefix, initialString)
    ELSE createDialog(S, prefix, initialString)

beginSearchAlwaysCreates(S, prefix, initialString) ==
    IF S.curDialog # 0 /\ ~S.dialogs[S.curDialog].isOpen
       /\ S.dialogs[S.curDialog].closePromise = "pending"
    THEN [S EXCEPT !.dialogs[S.curDialog].onClosed =
                       Append(@, [prefix |-> prefix, initialString |-> initialString])]
    ELSE createDialog(S, prefix, initialString)

\* beginSearch: close() on a dialog that is not open returns its closePromise; .done
\* on a pending promise queues createDialog, on a resolved one it runs it at once.
beginSearch(S, prefix, initialString) ==
    IF S.curDialog # 0
    THEN IF S.dialogs[S.curDialog].isOpen
         THEN setSearchFieldValue(S, S.curDialog, prefix, initialString)
         ELSE IF close(S, S.curDialog).dialogs[S.curDialog].closePromise = "pending"
              THEN [S EXCEPT !.dialogs[S.curDialog].onClosed =
                                 Append(@, [prefix |-> prefix, initialString |-> initialString])]
              ELSE createDialog(S, prefix, initialString)
    ELSE createDialog(S, prefix, initialString)

\* Index of the first occurrence of sub in s at or after i, 0 when there is none.
RECURSIVE IndexOfFrom(_, _, _)
IndexOfFrom(s, sub, i) ==
    IF i + Len(sub) - 1 > Len(s) THEN 0
    ELSE IF SubSeq(s, i, i + Len(sub) - 1) = sub THEN i
    ELSE IndexOfFrom(s, sub, i + 1)

\* query.replace(sub, "")
RemoveFirst(s, sub) ==
    LET i == IndexOfFrom(s, sub, 1)
    IN  IF i = 0 THEN s
        ELSE Substr(s, 1, i - 1) \o Substr(s, i + Len(sub), Len(s))

\* The query _doSearchFileList matches file paths against: the line/column suffix
\* is stripped unless the query is a bare go-to-line.
StrippedQuery(query) ==
    LET cursorPos == extractCursorPos(query)
    IN  IF ~cursorPos.isNull /\ ~cursorPos.local /\ cursorPos.query # <<>>
        THEN RemoveFirst(query, cursorPos.query)
        ELSE query

\* _doSearchFileList: the results are a function of the file list and the stripped
\* query (StringMatch does the matching); $.map over an unset list yields [].
doSearchFileListResults(files, query) == [files |-> files, query |-> StrippedQuery(query)]

FilterReturn(S, d, query, ret, consulted, searched, results) ==
    [S EXCEPT !.lastFilter = [dialog |-> d, query |-> query, ret |-> ret,
                              consulted |-> consulted, searched |-> searched,
                              results |-> results]]

NoResults == [files |-> 0, query |-> <<>>]

\* searchFileList(query, this._filenameMatcher), as the tail of _filterCallback.
\*   fileList set:                      the results, synchronously;
\*   fileList unset, promise pending:   a promise, the search queued on the load;
\*   fileList unset, promise resolved:  .done runs the search at once (over no list);
\*   fileList unset, promise null:      fileListPromise.done throws a TypeError.
searchFileList(S, d, query) ==
    IF S.fileList = 0
    THEN IF S.fileListPromise = 0
         THEN FilterReturn(S, d, query, "threw", {}, NoPlugin, NoResults)
         ELSE IF S.loads[S.fileListPromise].state = "pending"
              THEN FilterReturn(
                       [S EXCEPT !.loads[S.fileListPromise].waiting =
                                     Append(@, [dialog |-> d, query |-> query])],
                       d, query, "promise", {}, NoPlugin, NoResults)
              ELSE FilterReturn(
                       [S EXCEPT
                           !.asyncResults = <<doSearchFileListResults(S.fileList, query).files>>],
                       d, query, "promise", {}, NoPlugin, NoResults)
    ELSE FilterReturn(S, d, query, "results", {}, NoPlugin,
                      doSearchFileListResults(S.fileList, query))

\* Index of the first plugin of the list whose match(query) is true, 0 when none.
RECURSIVE LastMatch(_, _, _)
LastMatch(plugins, query, i) ==
    IF i > Len(plugins) THEN 0
    ELSE LET later == LastMatch(plugins, query, i + 1)
         IN  IF later # 0 THEN later
             ELSE IF PluginMatch(plugins[i].provider, query) THEN i ELSE 0

RECURSIVE FirstMatch(_, _, _)
FirstMatch(plugins, query, i) ==
    IF i > Len(plugins) THEN 0
    ELSE IF PluginMatch(plugins[i].provider, query) THEN i
    ELSE FirstMatch(plugins, query, i + 1)

\* QuickNavigateDialog.prototype._filterCallback
filterCallback(S, d, query) ==
    LET S0 == [S EXCEPT !.currentPlugin = NoPlugin, !.currentPluginSetIn = d]
        cursorPos == extractCursorPos(query)
        editor == S.curDoc # NoDoc
        plugins == getPluginsForCurrentContext(S)
        i == FirstMatch(plugins, query, 1)
        plugin == plugins[i].provider
    IN  IF ~cursorPos.isNull /\ cursorPos.local
        THEN IF /\ editor
                /\ cursorPos.line >= FirstVisibleLine(S.curDoc)
                /\ cursorPos.line <= LastVisibleLine(S.curDoc)
             THEN FilterReturn(
                      [S0 EXCEPT !.editors[S.curDoc].selections =
                                     Sel(Pos(cursorPos.line, cursorPos.ch), LineOnly(cursorPos.line))],
                      d, query, "errorNull", {}, NoPlugin, NoResults)
             ELSE FilterReturn(S0, d, query, "empty", {}, NoPlugin, NoResults)
        ELSE IF query = <<":">>
        THEN FilterReturn(S0, d, query, "errorNull", {}, NoPlugin, NoResults)
        ELSE IF i # 0
        THEN FilterReturn(
                 [S0 EXCEPT !.currentPlugin = plugin,
                            !.dialogs[d].matchers = @ \cup {plugin},
                            !.dialogs[d].dispatched = @ \cup {plugin}],
                 d, query, "pluginResults",
                 {plugins[j].provider : j \in 1..i}, plugin, NoResults)
        ELSE LET S1 == searchFileList(S0, d, query)
             IN  [S1 EXCEPT !.lastFilter.consulted =
                                {plugins[j].provider : j \in 1..Len(plugins)}]

\* What plugin code (itemFocus, itemSelect) does to the editor: nothing, reveal the
\* item in the current editor, or show another document.
PluginEffects == {"nothing", "reveal", "open"}

OtherDoc(doc) == IF doc = "a.js" THEN "b.css" ELSE "a.js"

pluginEffect(S, effect) ==
    CASE effect = "reveal" /\ S.curDoc # NoDoc ->
             [S EXCEPT !.editors[S.curDoc] = RevealedEditor]
      [] effect = "open" -> [S EXCEPT !.curDoc = OtherDoc(S.curDoc)]
      [] OTHER -> S

\* QuickNavigateDialog.prototype._handleItemHighlight
handleItemHighlight(S, d, effect) ==
    IF S.currentPlugin # NoPlugin /\ PluginDef(S.currentPlugin).hasItemFocus
    THEN pluginEffect([S EXCEPT !.dialogs[d].dispatched = @ \cup {S.currentPlugin}], effect)
    ELSE S

NoItem == "null"

\* QuickNavigateDialog.prototype._handleItemSelect.  selectedItem is NoItem, a file
\* (its fullPath) or "pluginItem".  With no editor open getCurrentFullEditor() is
\* null: line 363 throws a TypeError and the handler ends there, before close().
handleItemSelect(S, d, selectedItem, query, effect) ==
    LET Called(kind, threw) == [S EXCEPT !.lastSelect = [dialog |-> d, kind |-> kind, threw |-> threw]]
    IN  IF S.currentPlugin # NoPlugin
        THEN [close(pluginEffect([Called("plugin", FALSE) EXCEPT
                                      !.dialogs[d].dispatched = @ \cup {S.currentPlugin}],
                                 effect), d)
                 EXCEPT !.paneFocused = TRUE]
        ELSE LET cursorPos == extractCursorPos(query)
             IN  IF selectedItem \in Docs
                 THEN [Called("file", FALSE) EXCEPT
                          !.dialogs[d].openCmd = [pending |-> TRUE, fullPath |-> selectedItem,
                                                  cursorPos |-> cursorPos]]
                 ELSE IF ~cursorPos.isNull
                 THEN IF S.curDoc = NoDoc
                      THEN Called("noFile", TRUE)
                      ELSE [close([Called("noFile", FALSE) EXCEPT
                                      !.editors[S.curDoc].selections =
                                          CursorAt(cursorPos.line, cursorPos.ch)], d)
                               EXCEPT !.paneFocused = TRUE]
                 ELSE [close(Called("noFile", FALSE), d) EXCEPT !.paneFocused = TRUE]

\* CMD_ADD_TO_WORKINGSET_AND_OPEN settles: .done (opened) places the cursor, .always
\* closes the dialog.
openSettled(S, d, opened) ==
    LET cmd == S.dialogs[d].openCmd
        S1 == IF opened THEN [S EXCEPT !.curDoc = cmd.fullPath] ELSE S
        S2 == IF opened /\ ~cmd.cursorPos.isNull
              THEN [S1 EXCEPT !.editors[S1.curDoc].selections =
                                  CursorAt(cmd.cursorPos.line, cmd.cursorPos.ch)]
              ELSE S1
    IN  close([S2 EXCEPT !.dialogs[d].openCmd = NoCmd], d)

\* The deferred searches queued on a load run in order, after the load's own handler.
RECURSIVE runDeferredSearches(_, _)
runDeferredSearches(S, waiting) ==
    IF waiting = <<>> THEN S
    ELSE LET w  == Head(waiting)
             S1 == [S EXCEPT
                       !.asyncResults = Append(@, doSearchFileListResults(S.fileList, w.query).files)]
         IN  runDeferredSearches(S1, Tail(waiting))

\* The promise of load d resolves: showDialog's handler first, then the searches.
loadResolved(S, d) ==
    LET waiting == S.loads[d].waiting
        S1 == [fileListLoaded(S, d) EXCEPT
                  !.loads[d] = [state |-> "resolved", waiting |-> <<>>],
                  !.asyncResults = <<>>]
    IN  runDeferredSearches(S1, waiting)

RECURSIVE runCreateDialogs(_, _)
runCreateDialogs(S, callbacks) ==
    IF callbacks = <<>> THEN S
    ELSE runCreateDialogs(
             createDialog(S, Head(callbacks).prefix, Head(callbacks).initialString),
             Tail(callbacks))

\* The modal bar's close promise of dialog d resolves: the queued createDialog
\* callbacks run in order.
closeResolved(S, d) ==
    runCreateDialogs(
        [S EXCEPT !.dialogs[d].closePromise = "resolved", !.dialogs[d].onClosed = <<>>],
        S.dialogs[d].onClosed)

\* ----------------------------------------------------------- highlightMatch

\* The HTML highlightMatch builds, as the sequence of pieces it appends: an opening
\* span tag of a class, a closing span tag, the score-debug span, and a text passed
\* through StringUtils.breakableUrl (which escapes it).
OpenSpan(class) == [tag |-> "span", arg |-> class]
CloseSpan == [tag |-> "/span", arg |-> ""]
DebugSpan == [tag |-> "scoreDebug", arg |-> ""]
BreakableUrl(text) == [tag |-> "text", arg |-> text]

\* A string range of a SearchResult.
Range(text, matched, includesLastSegment) ==
    [text |-> text, matched |-> matched, includesLastSegment |-> includesLastSegment]

\* The items a formatter passes: a plain string, or a result with a label, with or
\* without stringRanges and scoreDebug.  Labels are not empty.
StringItem(label) ==
    [isString |-> TRUE, label |-> label, hasRanges |-> FALSE, stringRanges |-> <<>>,
     hasScoreDebug |-> FALSE]
ResultItem(label, hasRanges, stringRanges, hasScoreDebug) ==
    [isString |-> FALSE, label |-> label, hasRanges |-> hasRanges, stringRanges |-> stringRanges,
     hasScoreDebug |-> hasScoreDebug]

\* The rangeFilter arguments: none, or the file search's filter, which keeps only
\* the ranges of the path's last segment.
RangeFilters == {"undefined", "lastSegment"}
ApplyRangeFilter(rangeFilter, range) ==
    IF rangeFilter = "undefined" THEN range.text
    ELSE IF range.includesLastSegment THEN range.text ELSE ""

\* matchClass || "quicksearch-namematch"
MatchClassOrDefault(matchClass) ==
    IF matchClass \in {"undefined", ""} THEN "quicksearch-namematch" ELSE matchClass

RECURSIVE appendRanges(_, _, _, _)
appendRangesWrapsAll(displayName, stringRanges, matchClass, rangeFilter) ==
    IF stringRanges = <<>> THEN displayName
    ELSE LET range == Head(stringRanges)
             text  == BreakableUrl(ApplyRangeFilter(rangeFilter, range))
         IN  appendRanges(displayName \o <<OpenSpan(matchClass), text, CloseSpan>>,
                          Tail(stringRanges), matchClass, rangeFilter)

\* stringRanges.forEach of highlightMatch
appendRanges(displayName, stringRanges, matchClass, rangeFilter) ==
    IF stringRanges = <<>> THEN displayName
    ELSE LET range == Head(stringRanges)
             text  == BreakableUrl(ApplyRangeFilter(rangeFilter, range))
         IN  appendRanges(displayName \o
                              (IF range.matched
                               THEN <<OpenSpan(matchClass), text, CloseSpan>>
                               ELSE <<text>>),
                          Tail(stringRanges), matchClass, rangeFilter)

highlightMatch(item, matchClass, rangeFilter) ==
    LET label == item.label
        class == MatchClassOrDefault(matchClass)
        stringRanges == IF item.hasRanges THEN item.stringRanges
                        ELSE <<Range(label, FALSE, TRUE)>>
        displayName == IF item.hasScoreDebug THEN <<DebugSpan>> ELSE <<>>
    IN  appendRanges(displayName, stringRanges, class, rangeFilter)

NoFormat == [called |-> FALSE, html |-> <<>>]

\* ------------------------------------------------- currentFileChange handler

FileSystemErrors == {"NotFound", "UNSUPPORTED_ENCODING"}

\* _canHandleTrigger(trigger, plugins)
canHandleTrigger(trigger, plugins) ==
    \E i \in 1..Len(plugins) : PluginMatch(plugins[i].provider, <<trigger>>)

\* _setMenuItemStateForLanguage(languageId): the new enabled states
setMenuItemStateForLanguage(registry, languageId) ==
    LET plugins == getProvidersForLanguageId(registry, languageId)
    IN  [definition |-> canHandleTrigger("@", plugins),
         definitionProject |-> canHandleTrigger("#", plugins)]

BothDisabled == [definition |-> FALSE, definitionProject |-> FALSE]

\* The getDocumentForPath calls the handler makes: for the new file, then for the
\* old one if there is one.
documentLoads(newFile, oldFile) ==
    <<[path |-> newFile, role |-> "new"]>> \o
    (IF oldFile # NoFile THEN <<[path |-> oldFile, role |-> "old"]>> ELSE <<>>)

\* The .fail callbacks: what console.error is called with, if anything.
failLogsUnsupportedEncoding(role, err) == <<err>>

failLogged(role, err) ==
    IF role = "new" THEN <<err>>
    ELSE IF err # "UNSUPPORTED_ENCODING" THEN <<err>> ELSE <<>>

\* ------------------------------------------------------------------ actions

\* Arguments of beginSearch: the exported call with nothing, doGotoLine,
\* doDefinitionSearch and doFileSearch with "a" selected.
BeginArgs == { <<Null, Null>>, << <<":">>, <<>> >>, << <<"@">>, <<"a">> >> }

\* Every text of up to MaxQueryLen characters.
Queries == StringsUpTo(MaxQueryLen)

\* Queries typed in the life-cycle specification.
LifecycleQueries == { <<"@", "a">> }

\* Queries typed in the session specification.
SessionQueries == { <<":", "2">>, <<"@", "a">>, <<"a", ":", "2">> }

IsOpen(d) == dialogs[d].created /\ dialogs[d].isOpen

\* beginSearch is called while at most `limit` dialogs exist or are queued.
BeginSearch(limit, prefix, initialString) ==
    /\ \/ curDialog # 0 /\ dialogs[curDialog].isOpen
       \/ /\ NumDialogs(Cur) + NumPending(Cur) < limit
          /\ NumPending(Cur) < MaxPending
    /\ Becomes(beginSearch(Cur, prefix, initialString))
    /\ UNCHANGED fileChangeVars

\* The search field's text changes and QuickSearchField asks for the results.
\* At most `deferred` searches wait on a file-list load.
FieldInput(deferred, d, query) ==
    LET S == filterCallback([Cur EXCEPT !.dialogs[d].text = query], d, query)
    IN  /\ IsOpen(d)
        /\ \A l \in DialogIds : Len(S.loads[l].waiting) <= deferred
        /\ Becomes(S)
        /\ UNCHANGED fileChangeVars

ItemHighlight(d, effect) ==
    /\ IsOpen(d)
    /\ Becomes(handleItemHighlight(Cur, d, effect))
    /\ UNCHANGED fileChangeVars

\* Enter in the search field: the highlighted item, if any, is committed.
ItemSelect(d, selectedItem, effect) ==
    /\ IsOpen(d)
    /\ ~dialogs[d].openCmd.pending
    /\ IF currentPlugin # NoPlugin THEN selectedItem = "pluginItem"
       ELSE selectedItem = NoItem \/ (fileList # 0 /\ selectedItem \in Docs)
    /\ Becomes(handleItemSelect(Cur, d, selectedItem, dialogs[d].text, effect))
    /\ UNCHANGED fileChangeVars

OpenSettled(d, opened) ==
    /\ dialogs[d].openCmd.pending
    /\ Becomes(openSettled(Cur, d, opened))
    /\ UNCHANGED fileChangeVars

\* The modal bar closes on Escape or because the focus left it.
CloseBar(d, reason) ==
    /\ IsOpen(d)
    /\ Becomes(handleCloseBar(Cur, d, reason))
    /\ UNCHANGED fileChangeVars

CloseResolved(d) ==
    /\ dialogs[d].closePromise = "pending"
    /\ Becomes(closeResolved(Cur, d))
    /\ UNCHANGED fileChangeVars

LoadResolved(d) ==
    /\ loads[d].state = "pending"
    /\ Becomes(loadResolved(Cur, d))
    /\ UNCHANGED fileChangeVars

\* ProjectManager "projectOpen"
ProjectOpen ==
    /\ fileList # 0
    /\ Becomes([Cur EXCEPT !.fileList = 0])
    /\ UNCHANGED fileChangeVars

\* With no search bar open the user shows another document, or closes the last one.
UserShows(doc) ==
    /\ \A d \in DialogIds : ~IsOpen(d)
    /\ doc # curDoc
    /\ Becomes([Cur EXCEPT !.curDoc = doc])
    /\ UNCHANGED fileChangeVars

\* MainViewManager "currentFileChange"
CurrentFileChange(newFile, oldFile) ==
    /\ newFile # oldFile
    /\ IF newFile = NoFile \/ IsBinary(languages[newFile])
       THEN /\ commandEnabled' = BothDisabled
            /\ UNCHANGED docLoads
       ELSE /\ Len(docLoads) + Len(failures) + Len(documentLoads(newFile, oldFile)) <= MaxLoads
            /\ commandEnabled' = setMenuItemStateForLanguage(providers, languages[newFile])
            /\ docLoads' = docLoads \o documentLoads(newFile, oldFile)
    /\ UNCHANGED <<consoleErrors, listeners, failures, sessionVars>>

RemoveAt(seq, i) == SubSeq(seq, 1, i - 1) \o SubSeq(seq, i + 1, Len(seq))

\* A getDocumentForPath promise resolves: the new document gets the listener (off,
\* then on), the old one loses it.
DocLoadDone(i) ==
    /\ i \in 1..Len(docLoads)
    /\ listeners' = IF docLoads[i].role = "new"
                    THEN listeners \cup {docLoads[i].path}
                    ELSE listeners \ {docLoads[i].path}
    /\ docLoads' = RemoveAt(docLoads, i)
    /\ UNCHANGED <<commandEnabled, consoleErrors, failures, sessionVars>>

\* A getDocumentForPath promise is rejected with err.
DocLoadFail(i, err) ==
    /\ i \in 1..Len(docLoads)
    /\ consoleErrors' = consoleErrors \o failLogged(docLoads[i].role, err)
    /\ failures' = Append(failures, [role |-> docLoads[i].role, err |-> err])
    /\ docLoads' = RemoveAt(docLoads, i)
    /\ UNCHANGED <<commandEnabled, listeners, sessionVars>>

\* The language of a text file changes; a document with the listener updates the
\* commands.
LanguageChanged(path, languageId) ==
    /\ ~IsBinary(languages[path])
    /\ languages[path] # languageId
    /\ languages' = [languages EXCEPT ![path] = languageId]
    /\ commandEnabled' = IF path \in listeners
                         THEN setMenuItemStateForLanguage(providers, languageId)
                         ELSE commandEnabled
    /\ UNCHANGED <<consoleErrors, docLoads, listeners, failures>>
    /\ UNCHANGED <<providers, currentPlugin, fileList, fileListPromise, curDialog, dialogs, loads,
                   curDoc, editors, paneFocused, currentPluginSetIn, lastFilter, lastSelect,
                   formatted, asyncResults>>

\* The plugin definitions an extension may pass: a name of the catalogue, any set of
\* language ids, no priority or a priority of 0 or 1.
RegisteredDefs ==
    {[PluginDef(name) EXCEPT !.languageIds = ids, !.hasPriority = hasPriority, !.priority = priority] :
        name \in PluginNames, ids \in SUBSET {"javascript", "css"},
        hasPriority \in BOOLEAN, priority \in {0, 1}}

\* An extension calls addQuickOpenPlugin; plugin names are unique.
AddQuickOpenPlugin(pluginDef) ==
    /\ Len(providers) < MaxPlugins
    /\ \A i \in 1..Len(providers) : providers[i].provider # pluginDef.name
    /\ ~pluginDef.hasPriority => pluginDef.priority = 0
    /\ providers' = addQuickOpenPlugin(providers, pluginDef)
    /\ UNCHANGED <<currentPlugin, fileList, fileListPromise, curDialog, dialogs, loads,
                   curDoc, languages, editors, paneFocused, currentPluginSetIn, lastFilter,
                   lastSelect, formatted, asyncResults>>
    /\ UNCHANGED fileChangeVars

RECURSIVE RangesUpTo(_)
RangesUpTo(n) ==
    IF n = 0 THEN {<<>>}
    ELSE LET shorter == RangesUpTo(n - 1)
         IN  shorter \cup
             {Append(rs, Range(text, matched, last)) :
                 rs \in {t \in shorter : Len(t) = n - 1},
                 text \in {"a", "b"}, matched \in BOOLEAN, last \in BOOLEAN}

\* The items formatted: the string "ab", and results labelled "ab" with up to
\* MaxRanges string ranges or none, with and without scoreDebug.
Items ==
    {StringItem("ab")} \cup
    {ResultItem("ab", FALSE, <<>>, hasScoreDebug) : hasScoreDebug \in BOOLEAN} \cup
    {ResultItem("ab", TRUE, rs, hasScoreDebug) : rs \in RangesUpTo(MaxRanges), hasScoreDebug \in BOOLEAN}

MatchClasses == {"undefined", "", "custom-match"}

\* A results formatter calls highlightMatch with the arguments it was handed.
HighlightMatch ==
    /\ ~formatted.called
    /\ formatted' = [formatted EXCEPT
                        !.called = TRUE,
                        !.html = highlightMatch(formatted.item, formatted.matchClass,
                                                formatted.rangeFilter)]
    /\ UNCHANGED <<providers, currentPlugin, fileList, fileListPromise, curDialog, dialogs, loads,
                   curDoc, languages, editors, paneFocused, currentPluginSetIn, lastFilter,
                   lastSelect, asyncResults>>
    /\ UNCHANGED fileChangeVars

InitSession ==
    /\ providers = RegisterAll(<<>>, PluginDefs)
    /\ currentPlugin = NoPlugin
    /\ fileList = 0
    /\ fileListPromise = 0
    /\ curDialog = 0
    /\ dialogs = [d \in DialogIds |-> NoDialog]
    /\ loads = [d \in DialogIds |-> NoLoad]
    /\ curDoc \in Docs \cup {NoDoc}
    /\ languages = [f \in Files |-> DefaultLanguage(f)]
    /\ editors = [doc \in Docs |-> InitialEditor]
    /\ paneFocused = TRUE
    /\ currentPluginSetIn = 0
    /\ lastFilter = NoFilter
    /\ lastSelect = NoSelect
    /\ formatted = NoFormat
    /\ asyncResults = <<>>

InitFileChange ==
    /\ commandEnabled = [definition |-> TRUE, definitionProject |-> TRUE]
    /\ consoleErrors = <<>>
    /\ docLoads = <<>>
    /\ listeners = {}
    /\ failures = <<>>

Init == InitSession /\ InitFileChange

\* The module before any extension has registered a plugin.
InitRegister ==
    /\ providers = <<>>
    /\ currentPlugin = NoPlugin
    /\ fileList = 0
    /\ fileListPromise = 0
    /\ curDialog = 0
    /\ dialogs = [d \in DialogIds |-> NoDialog]
    /\ loads = [d \in DialogIds |-> NoLoad]
    /\ curDoc \in Docs \cup {NoDoc}
    /\ languages = [f \in Files |-> DefaultLanguage(f)]
    /\ editors = [doc \in Docs |-> InitialEditor]
    /\ paneFocused = TRUE
    /\ currentPluginSetIn = 0
    /\ lastFilter = NoFilter
    /\ lastSelect = NoSelect
    /\ formatted = NoFormat
    /\ asyncResults = <<>>
    /\ InitFileChange

\* The dialogs' life cycle: any number of beginSearch calls, plugin queries, closes
\* and file-list loads, over MaxDialogs dialogs.
Next ==
    \/ \E a \in BeginArgs : BeginSearch(MaxDialogs, a[1], a[2])
    \/ \E d \in DialogIds, q \in LifecycleQueries : FieldInput(MaxDeferred, d, q)
    \/ \E d \in DialogIds, reason \in {"escape", "blur"} : CloseBar(d, reason)
    \/ \E d \in DialogIds : CloseResolved(d)
    \/ \E d \in DialogIds : LoadResolved(d)
    \/ \E doc \in Docs \cup {NoDoc} : UserShows(doc)

Spec == Init /\ [][Next]_vars

\* One dialog from beginSearch to its close, with every callback of the search
\* field, the plugins and the open command.
NextSession ==
    \/ curDialog = 0 /\ BeginSearch(1, Null, Null)
    \/ \E q \in SessionQueries : FieldInput(MaxDeferred, 1, q)
    \/ \E e \in PluginEffects : ItemHighlight(1, e)
    \/ \E item \in Docs \cup {NoItem, "pluginItem"}, e \in PluginEffects : ItemSelect(1, item, e)
    \/ \E opened \in BOOLEAN : OpenSettled(1, opened)
    \/ \E reason \in {"escape", "blur"} : CloseBar(1, reason)
    \/ CloseResolved(1)
    \/ LoadResolved(1)
    \/ ProjectOpen

SpecSession == Init /\ [][NextSession]_vars

\* One dialog opened with any initial string of up to MaxQueryLen characters, which
\* the search field then filters; a text that searches the file list is filtered
\* once the list is loaded.
NextGoto ==
    \/ \E s \in Queries : curDialog = 0 /\ BeginSearch(1, Null, s)
    \/ FieldInput(0, 1, dialogs[1].text)
    \/ LoadResolved(1)

SpecGoto == Init /\ [][NextGoto]_vars

\* The currentFileChange handler, its document loads and language changes.
NextFileChange ==
    \/ \E newFile \in Files \cup {NoFile}, oldFile \in Files \cup {NoFile} :
           CurrentFileChange(newFile, oldFile)
    \/ \E i \in 1..MaxLoads : DocLoadDone(i)
    \/ \E i \in 1..MaxLoads, err \in FileSystemErrors : DocLoadFail(i, err)
    \/ \E path \in {"a.js", "c.txt"}, languageId \in {"javascript", "text"} :
           LanguageChanged(path, languageId)

SpecFileChange == Init /\ [][NextFileChange]_vars

\* Extensions register their plugins while the user moves between documents.
NextRegister ==
    \/ \E pluginDef \in RegisteredDefs : AddQuickOpenPlugin(pluginDef)
    \/ \E doc \in Docs \cup {NoDoc} : UserShows(doc)

SpecRegister == InitRegister /\ [][NextRegister]_vars

\* A formatter is about to call highlightMatch with an item, a class and a filter.
InitHighlight ==
    /\ providers = RegisterAll(<<>>, PluginDefs)
    /\ currentPlugin = NoPlugin
    /\ fileList = 0
    /\ fileListPromise = 0
    /\ curDialog = 0
    /\ dialogs = [d \in DialogIds |-> NoDialog]
    /\ loads = [d \in DialogIds |-> NoLoad]
    /\ curDoc = NoDoc
    /\ languages = [f \in Files |-> DefaultLanguage(f)]
    /\ editors = [doc \in Docs |-> InitialEditor]
    /\ paneFocused = TRUE
    /\ currentPluginSetIn = 0
    /\ lastFilter = NoFilter
    /\ lastSelect = NoSelect
    /\ asyncResults = <<>>
    /\ formatted \in {[called |-> FALSE, html |-> <<>>, item |-> item,
                        matchClass |-> matchClass, rangeFilter |-> rangeFilter] :
                           item \in Items, matchClass \in MatchClasses, rangeFilter \in RangeFilters}
    /\ InitFileChange

NextHighlight == HighlightMatch

SpecHighlight == InitHighlight /\ [][NextHighlight]_vars

\* ------------------------------------------------------------------- claims

\* C1: for a query ":N", ":N,C" or ":N:C" (N a positive integer, C an integer), with
\* a full editor open and line N-1 between its first and last visible line,
\* _filterCallback sets the selection to start at (N-1, C-1), or (N-1, 0) without C,
\* and to end on line N-1, returns {error: null}, consults no plugin and leaves
\* currentPlugin null.
C1_GotoLineJumps ==
    LET q == lastFilter.query
        parts == {[line |-> ToNumber(SubSeq(q, 2, k)) - 1,
                   ch |-> IF k = Len(q) THEN 0 ELSE ToNumber(SubSeq(q, k + 2, Len(q))) - 1] :
                     k \in {j \in 2..Len(q) :
                              /\ q[1] = ":"
                              /\ IsDigits(SubSeq(q, 2, j))
                              /\ ToNumber(SubSeq(q, 2, j)) >= 1
                              /\ \/ j = Len(q)
                                 \/ /\ j + 2 <= Len(q)
                                    /\ q[j + 1] \in {",", ":"}
                                    /\ IsDigits(SubSeq(q, j + 2, Len(q)))}}
    IN  \A p \in parts :
            ( /\ lastFilter.dialog # 0
              /\ curDoc # NoDoc
              /\ p.line >= FirstVisibleLine(curDoc)
              /\ p.line <= LastVisibleLine(curDoc) )
            => /\ editors[curDoc].selections = Sel(Pos(p.line, p.ch), LineOnly(p.line))
               /\ lastFilter.ret = "errorNull"
               /\ lastFilter.consulted = {}
               /\ lastFilter.searched = NoPlugin
               /\ currentPlugin = NoPlugin

\* ":2,2" was typed with a.js open: the selection starts at line 1, column 1.
C1_Witness ==
    /\ lastFilter.dialog = 1
    /\ lastFilter.query = <<":", "2", ",", "2">>
    /\ curDoc = "a.js"
    /\ editors["a.js"].selections = Sel(Pos(1, 1), LineOnly(1))
    /\ lastFilter.ret = "errorNull"

\* C2: when a dialog is closed with Escape, the document shown, its selections and
\* its scroll position are the ones showDialog recorded.
C2_EscapeReverts ==
    [][ ( CloseBar(1, "escape") /\ dialogs[1].origDocPath # NoDoc )
        => /\ curDoc' = dialogs[1].origDocPath
           /\ editors'[dialogs[1].origDocPath].selections = dialogs[1].origSelections
           /\ editors'[dialogs[1].origDocPath].scrollPos = dialogs[1].origScrollPos ]_vars

\* C3: when a dialog closes, every plugin with a done() that the dialog dispatched
\* to has had done() called.
C3_DoneForEveryDispatched ==
    [][ ( dialogs[1].isOpen /\ ~dialogs'[1].isOpen )
        => \A p \in dialogs'[1].dispatched :
               PluginDef(p).hasDone => p \in dialogs'[1].doneCalled ]_vars

\* C4: a query that is not handled as go-to-line is dispatched to the first plugin,
\* in the registry's order for the current document's language ("all" without a
\* document), whose match(query) is true: its search is called and it becomes
\* currentPlugin; when no plugin matches, currentPlugin is null and the file search
\* is called.
C4_FirstMatchingPlugin ==
    [][ \A q \in SessionQueries :
          LET gotoLine == q = <<":">> \/ (q[1] = ":" /\ ~extractCursorPos(q).isNull)
              plugins  == getProvidersForLanguageId(providers,
                              IF curDoc # NoDoc THEN languages[curDoc] ELSE "all")
              matching == {i \in 1..Len(plugins) : PluginMatch(plugins[i].provider, q)}
              first    == CHOOSE i \in matching : \A j \in matching : i <= j
          IN  ( FieldInput(MaxDeferred, 1, q) /\ ~gotoLine )
              => IF matching # {}
                 THEN /\ currentPlugin' = plugins[first].provider
                      /\ lastFilter'.searched = plugins[first].provider
                      /\ lastFilter'.ret = "pluginResults"
                      /\ dialogs'[1].dispatched = dialogs[1].dispatched \cup {plugins[first].provider}
                 ELSE /\ currentPlugin' = NoPlugin
                      /\ lastFilter'.searched = NoPlugin
                      /\ lastFilter'.ret \in {"results", "promise", "threw"}
                      /\ dialogs'[1].dispatched = dialogs[1].dispatched ]_vars

\* "@a" with a.js open went to jsSymbols, which outranks jsOutline and anySymbols.
C4_Witness ==
    /\ lastFilter.dialog = 1
    /\ lastFilter.query = <<"@", "a">>
    /\ lastFilter.searched = "jsSymbols"
    /\ lastFilter.consulted = {"jsSymbols"}
    /\ currentPlugin = "jsSymbols"

\* C5 as stated: outside a dialog, and in the next one, currentPlugin, fileList and
\* the matchers hold nothing that an earlier dialog set.
C5_SessionStateScoped ==
    /\ currentPlugin # NoPlugin =>
           curDialog # 0 /\ IsOpen(curDialog) /\ currentPluginSetIn = curDialog
    /\ fileList # 0 => curDialog # 0 /\ IsOpen(curDialog) /\ fileList = curDialog
    /\ \A d \in DialogIds : IsOpen(d) => dialogs[d].matchers \subseteq dialogs[d].dispatched

\* C5: the per-plugin matchers are scoped to one dialog: a dialog holds matchers
\* only for the plugins its own _filterCallback dispatched to, and a new dialog
\* starts with none.  currentPlugin and fileList are module variables that closing
\* a dialog and showing the next one leave as they are.
C5_MatchersScoped ==
    /\ [](\A d \in DialogIds : dialogs[d].matchers \subseteq dialogs[d].dispatched)
    /\ [][ /\ \A d \in DialogIds :
                (~dialogs[d].created /\ dialogs'[d].created) => dialogs'[d].matchers = {}
           /\ ( \/ \E d \in DialogIds, reason \in {"escape", "blur"} : CloseBar(d, reason)
                \/ \E d \in DialogIds : CloseResolved(d)
                \/ \E a \in BeginArgs : BeginSearch(MaxDialogs, a[1], a[2]) )
              => currentPlugin' = currentPlugin /\ fileList' = fileList ]_vars

\* The second dialog is open with a matcher of its own, while fileList is still the
\* list the first dialog's load delivered.
C5_Witness ==
    /\ curDialog = 2
    /\ IsOpen(2)
    /\ fileList = 1
    /\ dialogs[2].matchers = {"jsSymbols"}
    /\ dialogs[2].dispatched = {"jsSymbols"}

\* C6: beginSearch while the current dialog is open creates no dialog, starts no
\* file-list load and records no original position: it sets the search field's text
\* to prefix + initialString and selects the part after the prefix.
C6_BeginSearchWhileOpen ==
    [][ \A a \in BeginArgs :
          ( /\ curDialog # 0
            /\ dialogs[curDialog].isOpen
            /\ BeginSearch(MaxDialogs, a[1], a[2]) )
          => LET pre  == IF a[1] = Null THEN <<>> ELSE a[1]
                 rest == IF a[2] = Null THEN <<>> ELSE a[2]
             IN  /\ curDialog' = curDialog
                 /\ dialogs' = [dialogs EXCEPT ![curDialog].text = pre \o rest,
                                               ![curDialog].selRange = <<Len(pre), Len(pre \o rest)>>]
                 /\ loads' = loads
                 /\ fileListPromise' = fileListPromise
                 /\ UNCHANGED <<currentPlugin, fileList, curDoc, editors, paneFocused>> ]_vars

\* Dialog 1 filtered "@a" and, still open, now holds the text of doGotoLine's
\* beginSearch(":", "").
C6_Witness ==
    /\ curDialog = 1
    /\ IsOpen(1)
    /\ lastFilter.dialog = 1
    /\ dialogs[1].text = <<":">>
    /\ dialogs[1].selRange = <<1, 1>>
    /\ \A d \in DialogIds : d # 1 => ~dialogs[d].created

\* C7: beginSearch while the current dialog is closing creates and opens nothing;
\* when the close promise resolves, a dialog is created and shown for each waiting
\* call, with that call's prefix and initialString; with no dialog ever created,
\* beginSearch creates and shows one at once.
C7_BeginSearchWhileClosing ==
    [][ /\ \A a \in BeginArgs :
             ( /\ curDialog # 0
               /\ ~dialogs[curDialog].isOpen
               /\ dialogs[curDialog].closePromise = "pending"
               /\ BeginSearch(MaxDialogs, a[1], a[2]) )
             => /\ curDialog' = curDialog
                /\ \A d \in DialogIds : dialogs'[d].created = dialogs[d].created
                /\ \A d \in DialogIds : dialogs'[d].isOpen = dialogs[d].isOpen
                /\ ~dialogs'[curDialog].isOpen
        /\ \A d \in DialogIds :
             CloseResolved(d)
             => \A i \in 1..Len(dialogs[d].onClosed) :
                    LET n  == Cardinality({e \in DialogIds : dialogs[e].created}) + i
                        cb == dialogs[d].onClosed[i]
                    IN  /\ dialogs'[n].created
                        /\ dialogs'[n].isOpen
                        /\ dialogs'[n].text = OrEmpty(cb.prefix) \o OrEmpty(cb.initialString)
        /\ \A a \in BeginArgs :
             ( curDialog = 0 /\ BeginSearch(MaxDialogs, a[1], a[2]) )
             => /\ curDialog' = 1
                /\ dialogs'[1].isOpen
                /\ dialogs'[1].text = OrEmpty(a[1]) \o OrEmpty(a[2]) ]_vars

\* A beginSearch("@", "a") waits on dialog 1's pending close promise; nothing is open.
C7_Witness ==
    /\ curDialog = 1
    /\ dialogs[1].closePromise = "pending"
    /\ dialogs[1].onClosed = <<[prefix |-> <<"@">>, initialString |-> <<"a">>]>>
    /\ \A d \in DialogIds : ~dialogs[d].isOpen

\* C8: after _handleItemSelect the dialog is closed: at once when a plugin is
\* current or no file is selected, and once the open command has settled when a
\* file is selected; the modal bar is closed at most once.
C8_ItemSelectCloses ==
    \A d \in DialogIds :
        lastSelect.dialog = d
        => /\ lastSelect.kind \in {"plugin", "noFile"} => ~dialogs[d].isOpen
           /\ (lastSelect.kind = "file" /\ ~dialogs[d].openCmd.pending) => ~dialogs[d].isOpen
           /\ dialogs[d].barCloses <= 1

\* C9: a file search with fileList unset returns a promise, and the load that
\* resolves it stores fileList before the waiting searches run, so that they see the
\* new list; a file search with fileList set returns its results synchronously.
C9_DeferredFileSearch ==
    [][ /\ \A q \in SessionQueries :
             ( /\ FieldInput(MaxDeferred, 1, q)
               /\ lastFilter'.searched = NoPlugin
               /\ lastFilter'.ret \notin {"errorNull", "empty"} )
             => IF fileList = 0
                THEN /\ lastFilter'.ret = "promise"
                     /\ loads'[fileListPromise].waiting # loads[fileListPromise].waiting
                ELSE /\ lastFilter'.ret = "results"
                     /\ lastFilter'.results.files = fileList
        /\ LoadResolved(1)
             => /\ fileList' = 1
                /\ Len(asyncResults') = Len(loads[1].waiting)
                /\ \A i \in 1..Len(asyncResults') : asyncResults'[i] = 1 ]_vars

\* C10: a failed load of the new file's document is logged; a failed load of the old
\* file's document is logged unless the error is UNSUPPORTED_ENCODING; neither
\* changes the enabled state of the Go to Definition commands.
C10_LoadFailuresLogged ==
    [][ \A i \in 1..MaxLoads, err \in FileSystemErrors :
          DocLoadFail(i, err)
          => /\ consoleErrors' =
                    IF docLoads[i].role = "old" /\ err = "UNSUPPORTED_ENCODING"
                    THEN consoleErrors
                    ELSE Append(consoleErrors, err)
             /\ commandEnabled' = commandEnabled
             /\ listeners' = listeners ]_vars

\* The old file's document failed to load with UNSUPPORTED_ENCODING and nothing was
\* logged for it, while a failed load of a new file's document was logged.
C10_Witness ==
    /\ \E i \in 1..Len(failures) : failures[i] = [role |-> "old", err |-> "UNSUPPORTED_ENCODING"]
    /\ \E i \in 1..Len(failures) : failures[i] = [role |-> "new", err |-> "UNSUPPORTED_ENCODING"]
    /\ consoleErrors = <<"UNSUPPORTED_ENCODING">>

\* C11: addQuickOpenPlugin registers a plugin with an empty languageIds for "all",
\* which makes it a candidate for every document language and with no document
\* open; one with a non-empty languageIds is registered for exactly those ids; the
\* priority is 0 when pluginDef.priority is absent.
C11_RegisteredForAll ==
    [][ \A pluginDef \in RegisteredDefs :
          AddQuickOpenPlugin(pluginDef)
          => LET r == providers'[Len(providers')]
                 candidates(languageId) ==
                     LET plugins == getProvidersForLanguageId(providers', languageId)
                     IN  {plugins[i].provider : i \in 1..Len(plugins)}
             IN  /\ Len(providers') = Len(providers) + 1
                 /\ r.provider = pluginDef.name
                 /\ IF pluginDef.languageIds = {}
                    THEN /\ r.languageIds = {"all"}
                         /\ \A languageId \in TextLanguages \cup {"undefined"} :
                                pluginDef.name \in candidates(languageId)
                    ELSE /\ r.languageIds = pluginDef.languageIds
                         /\ \A languageId \in (TextLanguages \cup {"undefined"}) \ pluginDef.languageIds :
                                pluginDef.name \notin candidates(languageId)
                 /\ ~pluginDef.hasPriority => r.priority = 0
                 /\ pluginDef.hasPriority => r.priority = pluginDef.priority ]_vars

\* With no document open, the context's plugins are exactly the one registered with
\* an empty languageIds and no priority; the javascript-only plugin is left out.
C11_Witness ==
    /\ curDoc = NoDoc
    /\ Len(providers) = 2
    /\ providers[1] = [provider |-> "jsOutline", languageIds |-> {"javascript"}, priority |-> 1]
    /\ providers[2] = [provider |-> "anySymbols", languageIds |-> {"all"}, priority |-> 0]
    /\ getPluginsForCurrentContext(Cur) = <<providers[2]>>

\* C12: highlightMatch emits the string ranges in their order; a matched range is
\* wrapped in exactly one span of matchClass ("quicksearch-namematch" by default),
\* an unmatched one is emitted without a span; an item without stringRanges is
\* emitted as its whole label with no highlighting span.
C12_HighlightsMatchedRanges ==
    formatted.called =>
        LET item   == formatted.item
            html   == formatted.html
            class  == IF formatted.matchClass \in {"undefined", ""}
                      THEN "quicksearch-namematch" ELSE formatted.matchClass
            shown(r) == IF formatted.rangeFilter = "lastSegment" /\ ~r.includesLastSegment
                        THEN "" ELSE r.text
            first  == IF item.hasScoreDebug THEN 1 ELSE 0
            ranges == item.stringRanges
            spansBefore(i) == Cardinality({j \in 1..(i - 1) : ranges[j].matched})
            at(i)  == first + i + 2 * spansBefore(i) + (IF ranges[i].matched THEN 1 ELSE 0)
        IN  IF item.hasRanges
            THEN /\ Len(html) = first + Len(ranges) + 2 * spansBefore(Len(ranges) + 1)
                 /\ \A i \in 1..Len(ranges) :
                        /\ html[at(i)] = [tag |-> "text", arg |-> shown(ranges[i])]
                        /\ ranges[i].matched =>
                               /\ html[at(i) - 1] = [tag |-> "span", arg |-> class]
                               /\ html[at(i) + 1] = [tag |-> "/span", arg |-> ""]
                 /\ Cardinality({k \in 1..Len(html) : html[k].tag = "span"})
                        = spansBefore(Len(ranges) + 1)
            ELSE /\ Len(html) = first + 1
                 /\ html[first + 1] = [tag |-> "text", arg |-> item.label]
                 /\ \A k \in 1..Len(html) : html[k].tag # "span"

\* A result with an unmatched "a", a matched "b" and an unmatched "a" was formatted
\* with the default class: only "b" is inside a span.
C12_Witness ==
    /\ formatted.called
    /\ formatted.matchClass = "undefined"
    /\ formatted.item.hasRanges
    /\ Len(formatted.item.stringRanges) = 3
    /\ formatted.html = <<[tag |-> "text", arg |-> "a"],
                          [tag |-> "span", arg |-> "quicksearch-namematch"],
                          [tag |-> "text", arg |-> "b"],
                          [tag |-> "/span", arg |-> ""],
                          [tag |-> "text", arg |-> "a"]>>

\* C13: at most one QuickNavigateDialog is open at any time.
C13_AtMostOneOpen ==
    Cardinality({d \in DialogIds : dialogs[d].created /\ dialogs[d].isOpen}) <= 1

\* C14: for one dialog, close() calls modalBar.close() at most once, and the close
\* promise is assigned at most once, when the dialog starts closing: every later
\* close() returns that promise.
C14_CloseIdempotent ==
    \A d \in DialogIds :
        /\ dialogs[d].barCloses <= 1
        /\ dialogs[d].closeEvents <= 1
        /\ dialogs[d].closeEvents = 1 <=> dialogs[d].closePromise # "unset"
        /\ dialogs[d].closeEvents = 0 <=> (dialogs[d].created => dialogs[d].isOpen)

\* A file was committed, the bar closed on blur, and the open command then settled:
\* its close() found the dialog closing and did not close the bar again.
C14_Witness ==
    /\ lastSelect = [dialog |-> 1, kind |-> "file", threw |-> FALSE]
    /\ ~dialogs[1].openCmd.pending
    /\ dialogs[1].closePromise = "pending"
    /\ dialogs[1].closeEvents = 1
    /\ dialogs[1].barCloses = 0

====
